---------------------------- MODULE Spec2Model ----------------------------
(***************************************************************************)
(* A model of src/app.py: the ISEM NIV & Price terminal.                   *)
(*                                                                         *)
(*  - get_isem_data_safely (lines 29-71): the cached, date-by-date search  *)
(*    of the SEM-O static-reports catalog, one network request per step;   *)
(*  - parse_sem_xml (lines 18-26);                                         *)
(*  - the module-level script (lines 84-140): column sniffer, cleaning,    *)
(*    sorting, and the two error branches.                                 *)
(*                                                                         *)
(* Spec is the application against a service that publishes and a clock    *)
(* that advances between script runs; FairSpec is the script run against   *)
(* every holding of the service, with the fairness the request timeouts    *)
(* give; SpecScript is the module-level script on every generated report.  *)
(*                                                                         *)
(* Dates are day numbers, clock readings are seconds, figures are kept in  *)
(* tenths ("12.5" is 125).  An absent value (Python None, NaN, NaT) is the *)
(* empty tuple << >>, a present value x is <<x>>.                          *)
(***************************************************************************)
EXTENDS Integers, Sequences, FiniteSets, TLC

VARIABLES
    remote,      \* what the catalog holds per date: a document name or NoDoc
    indicative,  \* whether 5-minute indicative files exist for user_date
    now,         \* the clock, in seconds
    cache,       \* st.cache_data's store: requested date -> entry or NoEntry
    pc,          \* "idle" | "query" | "download" | "returned" | "shown" | "raised"
    user_date,   \* the argument of the running (or last) call
    i,           \* the loop variable of get_isem_data_safely
    resource,    \* resource_name of the catalog answer being downloaded
    result,      \* (df, mode, actual_date) as returned to the script
    log,         \* per probed date, in order: the date and whether it yielded a table
    nCatalog,    \* catalog requests issued by the running (or last) call
    nDownload,   \* document downloads issued by the running (or last) call
    view         \* what the script rendered from result

vars == <<remote, indicative, now, cache, pc, user_date, i, resource, result,
          log, nCatalog, nDownload, view>>

---------------------------------------------------------------------------
(* Bounds of the model *)

MaxDate == 10        \* the latest date a user asks for
MaxPublished == 2    \* dates holding a document at the same time
MaxTicks == 2        \* clock advances
TickSeconds == 300   \* seconds per clock advance
MaxRows == 2         \* rows of a generated report

(* Program constants *)

Lookback == 6        \* range(6)
TTL == 600           \* st.cache_data(ttl=600)

---------------------------------------------------------------------------
(* Optional values *)

Absent == << >>
Some(x) == <<x>>
Get(o) == o[1]

---------------------------------------------------------------------------
(* Report documents *)

t_col == "START_TIME"
PriceAliases == <<"IMBALANCE_SETTLEMENT_PRICE", "IMBALANCE_PRICE", "NET_IMBALANCE_PRICE">>
VolumeAliases == <<"NET_IMBALANCE_VOLUME", "QNIV", "VOLUME">>
ForeignCols == {"TIME", "SETTLEMENT_PRICE", "VOL"}

Range(s) == {s[k] : k \in DOMAIN s}

\* The figure a generated report puts under tag c of a row with time t, price p, volume v.
CellOf(c, lr) ==
    IF c \in {t_col, "TIME"} THEN lr.t
    ELSE IF c \in Range(PriceAliases) \cup {"SETTLEMENT_PRICE"} THEN lr.p
    ELSE lr.v

\* One <Row> element with the child tags cols.
MkRow(cols, lr) == [c \in cols |-> CellOf(c, lr)]

\* A well-formed report whose rows all carry the tags cols.
MkContent(cols, lrs) ==
    [wf |-> TRUE, rows |-> [k \in DOMAIN lrs |-> MkRow(cols, lrs[k])]]

LR(t, p, v) == [t |-> t, p |-> p, v |-> v]

GoodRows == << LR(Some("09:30"), Some("13.0"), Some("25")),
               LR(Some("09:00"), Some("12.5"), Some("-40")) >>

NoDoc == "none"
DocNames == {"good", "schema", "norows"}

\* The bytes the document server holds under a resource name.
DocContent(name) ==
    CASE name = "good" -> MkContent({t_col, "IMBALANCE_PRICE", "QNIV"}, GoodRows)
      [] name = "schema" -> MkContent(ForeignCols, GoodRows)
      [] OTHER -> [wf |-> TRUE, rows |-> << >>]

\* Bytes that are not well-formed XML.
Garbled == [wf |-> FALSE, rows |-> << >>]

---------------------------------------------------------------------------
(* parse_sem_xml and pandas.DataFrame *)

NoneDF == [none |-> TRUE, cols |-> {}, rows |-> << >>]

\* pd.DataFrame(rows): the columns are the union of the rows' keys, a key a
\* row lacks is NaN in that row.
DataFrame(rows) ==
    LET cols == UNION {DOMAIN rows[k] : k \in DOMAIN rows}
    IN  [none |-> FALSE,
         cols |-> cols,
         rows |-> [k \in DOMAIN rows |->
                     [c \in cols |-> IF c \in DOMAIN rows[k] THEN rows[k][c] ELSE Absent]]]

parse_sem_xml(content) ==
    IF content.wf THEN DataFrame(content.rows) ELSE NoneDF

\* df.empty: no rows or no columns.
Empty(df) == df.rows = << >> \/ df.cols = {}

---------------------------------------------------------------------------
(* The remote service *)

Requested == {MaxDate}
Dates == (MaxDate - Lookback + 1)..MaxDate

\* What the catalog lists for date d; nothing outside the modelled window.
Holding(d) == IF d \in Dates THEN remote[d] ELSE NoDoc

CatalogOutcomes == {"exception", "non200", "badjson", "noname", "ok"}
DownloadOutcomes == {"exception", "non200", "garbled", "ok"}

\* The answer of the static-reports API for a date holding doc, under weather w.
CatalogResponse(w, doc) ==
    [raised |-> w = "exception",
     status |-> IF w = "non200" THEN 503 ELSE 200,
     json_ok |-> w # "badjson",
     items |-> IF doc = NoDoc THEN << >>
               ELSE << [ResourceName |-> IF w = "noname" THEN Absent ELSE Some(doc)] >>]

\* The answer of the document server for resource name, under weather w.
DocumentResponse(w, name) ==
    [raised |-> w = "exception",
     status |-> IF w = "non200" THEN 404 ELSE 200,
     content |-> IF w = "garbled" THEN Garbled ELSE DocContent(name)]

\* A response that is a published report which downloads and parses to a
\* non-empty table.
UsableDocument(r) ==
    /\ ~r.raised
    /\ r.status = 200
    /\ r.content.wf
    /\ \E k \in DOMAIN r.content.rows : DOMAIN r.content.rows[k] # {}

---------------------------------------------------------------------------
(* get_isem_data_safely *)

\* Lines 13-15: df, mode, actual_date before the fetch.
Unset == [df |-> NoneDF, mode |-> "Search", date |-> Absent]

NONE == [df |-> NoneDF, mode |-> "None", date |-> Absent]
Official(data, d) == [df |-> data, mode |-> "Official Settlement", date |-> Some(d)]

\* A search that starts one day early.
check_date_off_by_one(target_date, k) == target_date - (k + 1)

\* Line 41: target_date - timedelta(days=i)
check_date(target_date, k) == target_date - k

Raise == [exc |-> TRUE, val |-> Absent]
Skip == [exc |-> FALSE, val |-> Absent]
Value(x) == [exc |-> FALSE, val |-> Some(x)]

\* Lines 51-58: the resource name to download, nothing, or an exception.
CatalogStep(r) ==
    IF r.raised THEN Raise                       \* requests.get raises
    ELSE IF r.status # 200 THEN Skip
    ELSE IF ~r.json_ok THEN Raise                \* r.json() raises
    ELSE IF r.items = << >> THEN Skip
    ELSE IF r.items[1].ResourceName = Absent THEN Raise     \* KeyError
    ELSE Value(Get(r.items[1].ResourceName))

\* Lines 62-67: the table to return, nothing, or an exception.
DownloadStep(r) ==
    IF r.raised THEN Raise
    ELSE IF r.status # 200 THEN Skip
    ELSE LET data == parse_sem_xml(r.content)
         IN  IF ~data.none /\ ~Empty(data) THEN Value(data) ELSE Skip

\* A loop body without the except clause.
ExceptionUncaught == FALSE

\* Lines 68-69: except Exception: continue.
ExceptionCaught == TRUE

\* A loop that runs one iteration too many.
NextIter_one_more(k) == IF k < Lookback THEN Some(k + 1) ELSE Absent

\* Line 40: the next value of the loop variable, or Absent when range(6) is spent.
NextIter(k) == IF k + 1 < Lookback THEN Some(k + 1) ELSE Absent

---------------------------------------------------------------------------
(* st.cache_data(ttl=600) *)

NoEntry == [has |-> FALSE, at |-> 0, val |-> NONE]

\* A cache whose entries never expire.
CacheValid_no_ttl(e, t) == e.has

\* An entry answers until ttl seconds after it was stored.
CacheValid(e, t) == e.has /\ t - e.at < TTL

\* A cache that keeps successful resolutions only.
CacheStore_success_only(c, d, t, val) ==
    IF val.df.none THEN c ELSE [c EXCEPT ![d] = [has |-> TRUE, at |-> t, val |-> val]]

\* The decorator stores whatever the function returned.
CacheStore(c, d, t, val) == [c EXCEPT ![d] = [has |-> TRUE, at |-> t, val |-> val]]

---------------------------------------------------------------------------
(* The script after the fetch: lines 87-140 *)

Min(S) == CHOOSE x \in S : \A y \in S : x <= y

Max(S) == CHOOSE x \in S : \A y \in S : x >= y

\* A resolver in which the last alias present wins.
FirstPresent_last_wins(aliases, cols) ==
    LET found == {k \in DOMAIN aliases : aliases[k] \in cols}
    IN  IF found = {} THEN Absent ELSE Some(aliases[Max(found)])

\* next((c for c in aliases if c in df.columns), None)
FirstPresent(aliases, cols) ==
    LET found == {k \in DOMAIN aliases : aliases[k] \in cols}
    IN  IF found = {} THEN Absent ELSE Some(aliases[Min(found)])

\* The number a text denotes, in tenths; Absent when it denotes none.
NumberOf(text) ==
    CASE text = "12.5" -> Some(125)
      [] text = "13.0" -> Some(130)
      [] text = "25" -> Some(250)
      [] text = "-40" -> Some(0 - 400)
      [] OTHER -> Absent

\* pd.to_numeric(errors='coerce') on one cell: NaN for a missing or non-numeric one.
to_numeric(cell) == IF cell = Absent THEN Absent ELSE NumberOf(Get(cell))

\* The minute of the day a text denotes; Absent when it is no timestamp.
TimeOf(text) ==
    CASE text = "09:00" -> Some(540)
      [] text = "09:30" -> Some(570)
      [] OTHER -> Absent

\* pd.to_datetime on one cell: NaT for a missing one.
to_datetime(cell) == IF cell = Absent THEN Absent ELSE TimeOf(Get(cell))

\* pd.to_datetime (errors='raise', the default) raises on this cell.
Unparseable(cell) == cell # Absent /\ TimeOf(Get(cell)) = Absent

\* Lines 96-98 on one row.
CleanRow(row, p, v) ==
    [t |-> to_datetime(row[t_col]), p |-> to_numeric(row[p]), v |-> to_numeric(row[v])]

\* df.dropna(subset=[p_col, v_col])
DropNa(rows) == SelectSeq(rows, LAMBDA r : r.p # Absent /\ r.v # Absent)

\* sort_values' order on the time column: ascending, NaT last.
TimeLeq(a, b) == b = Absent \/ (a # Absent /\ Get(a) <= Get(b))

Perms(n) == {f \in [1..n -> 1..n] : \A a, b \in 1..n : a # b => f[a] # f[b]}

\* df.sort_values(t_col): every arrangement of the rows that is ascending by
\* time (the default quicksort leaves the order of equal times open).
SortValues(rows) ==
    LET n == Len(rows)
        arranged == {[k \in 1..n |-> rows[f[k]]] : f \in Perms(n)}
    IN  {q \in arranged : \A k \in 1..(n - 1) : TimeLeq(q[k].t, q[k + 1].t)}

Blank == [kind |-> "blank", rows |-> << >>, cols |-> {}, p_col |-> Absent, v_col |-> Absent]

View(kind, rows, cols, p, v) ==
    [kind |-> kind, rows |-> rows, cols |-> cols, p_col |-> p, v_col |-> v]

\* Lines 95-136: the cleaned tables the script may show, or an exception.
Cleaned(df, p, v) ==
    IF t_col \notin df.cols
    THEN {View("exception", << >>, {}, Some(p), Some(v))}        \* KeyError, line 98
    ELSE IF \E k \in DOMAIN df.rows : Unparseable(df.rows[k][t_col])
    THEN {View("exception", << >>, {}, Some(p), Some(v))}        \* to_datetime raises
    ELSE LET kept == DropNa([k \in DOMAIN df.rows |-> CleanRow(df.rows[k], p, v)])
         IN  {View("table", q, df.cols, Some(p), Some(v)) : q \in SortValues(kept)}

\* Lines 87-140: what the script shows for the fetched result.
Script(res) ==
    IF res.df.none \/ Empty(res.df)
    THEN {View("no_data", << >>, {}, Absent, Absent)}            \* line 140
    ELSE LET p_col == FirstPresent(PriceAliases, res.df.cols)
             v_col == FirstPresent(VolumeAliases, res.df.cols)
         IN  IF p_col # Absent /\ v_col # Absent
             THEN Cleaned(res.df, Get(p_col), Get(v_col))
             ELSE {View("schema_error", << >>, res.df.cols, p_col, v_col)}   \* line 138

---------------------------------------------------------------------------
(* Actions *)

Init ==
    /\ remote = [d \in Dates |-> NoDoc]
    /\ indicative = FALSE
    /\ now = 0
    /\ cache = [d \in Requested |-> NoEntry]
    /\ pc = "idle"
    /\ user_date = MaxDate
    /\ i = 0
    /\ resource = NoDoc
    /\ result = Unset
    /\ log = << >>
    /\ nCatalog = 0
    /\ nDownload = 0
    /\ view = Blank

\* The function returns res: the decorator stores it, the script goes on.
Return(res) ==
    /\ result' = res
    /\ cache' = CacheStore(cache, user_date, now, res)
    /\ pc' = "returned"

\* The candidate of iteration i failed: the next iteration, or the final return.
MoveOn ==
    LET n == NextIter(i)
    IN  IF n # Absent
        THEN /\ i' = Get(n)
             /\ pc' = "query"
             /\ UNCHANGED <<result, cache>>
        ELSE /\ i' = i
             /\ Return(NONE)

\* An exception leaves the function: the script run dies with it.
Abort ==
    /\ pc' = "raised"
    /\ UNCHANGED <<i, result, cache>>

\* Lines 68-69 on an exception raised inside the try block.
Except == IF ExceptionCaught THEN MoveOn ELSE Abort

\* A rerun of the script for date d (line 84): the cache answers, or the search starts.
Call(d) ==
    /\ pc = "idle"
    /\ user_date' = d
    /\ IF CacheValid(cache[d], now)
       THEN result' = cache[d].val /\ pc' = "returned"
       ELSE result' = Unset /\ pc' = "query"
    /\ UNCHANGED <<remote, indicative, now, cache, i, resource, log, nCatalog,
                   nDownload, view>>

\* Lines 41-58: the catalog request of iteration i.
Query(w) ==
    /\ pc = "query"
    /\ LET d == check_date(user_date, i)
           out == CatalogStep(CatalogResponse(w, Holding(d)))
       IN  /\ nCatalog' = nCatalog + 1
           /\ IF out.val # Absent
              THEN /\ resource' = Get(out.val)
                   /\ pc' = "download"
                   /\ UNCHANGED <<i, result, cache, log>>
              ELSE /\ log' = Append(log, [date |-> d, ok |-> FALSE])
                   /\ resource' = NoDoc
                   /\ IF out.exc THEN Except ELSE MoveOn
    /\ UNCHANGED <<remote, indicative, now, user_date, nDownload, view>>

\* Lines 59-67: the download of the resource the catalog named.
Download(w) ==
    /\ pc = "download"
    /\ LET d == check_date(user_date, i)
           r == DocumentResponse(w, resource)
           out == DownloadStep(r)
       IN  /\ nDownload' = nDownload + 1
           /\ log' = Append(log, [date |-> d, ok |-> UsableDocument(r)])
           /\ IF out.val # Absent
              THEN i' = i /\ Return(Official(Get(out.val), d))
              ELSE IF out.exc THEN Except ELSE MoveOn
    /\ UNCHANGED <<remote, indicative, now, user_date, resource, nCatalog, view>>

\* SEM-O publishes (or replaces) the report of date d.
Publish(d, name) ==
    /\ pc = "idle"
    /\ remote[d] # name
    /\ Cardinality({e \in Dates : remote[e] # NoDoc} \cup {d}) <= MaxPublished
    /\ remote' = [remote EXCEPT ![d] = name]
    /\ UNCHANGED <<indicative, now, cache, pc, user_date, i, resource, result,
                   log, nCatalog, nDownload, view>>

\* SEM-O publishes the 5-minute indicative files.
PublishIndicative ==
    /\ pc = "idle"
    /\ ~indicative
    /\ indicative' = TRUE
    /\ UNCHANGED <<remote, now, cache, pc, user_date, i, resource, result,
                   log, nCatalog, nDownload, view>>

\* Lines 87-140 run on the returned result; the script run ends.
Render ==
    /\ pc = "returned"
    /\ \E w \in Script(result) : view' = w
    /\ pc' = "shown"
    /\ UNCHANGED <<remote, indicative, now, cache, user_date, i, resource, result,
                   log, nCatalog, nDownload>>

\* The script run is over: its variables are gone, the page waits for the next
\* interaction.
Finish ==
    /\ pc \in {"shown", "raised"}
    /\ pc' = "idle"
    /\ user_date' = MaxDate
    /\ i' = 0
    /\ resource' = NoDoc
    /\ result' = Unset
    /\ log' = << >>
    /\ nCatalog' = 0
    /\ nDownload' = 0
    /\ view' = Blank
    /\ UNCHANGED <<remote, indicative, now, cache>>

Tick ==
    /\ pc = "idle"
    /\ now + TickSeconds <= MaxTicks * TickSeconds
    /\ now' = now + TickSeconds
    /\ UNCHANGED <<remote, indicative, cache, pc, user_date, i, resource, result,
                   log, nCatalog, nDownload, view>>

Next ==
    \/ \E d \in Requested : Call(d)
    \/ \E w \in CatalogOutcomes : Query(w)
    \/ \E w \in DownloadOutcomes : Download(w)
    \/ \E d \in Dates, name \in DocNames : Publish(d, name)
    \/ Render
    \/ Finish
    \/ PublishIndicative
    \/ Tick

Spec == Init /\ [][Next]_vars

\* The search's requests each end (timeout=10) and the script runs on.
Step ==
    \/ \E w \in CatalogOutcomes : Query(w)
    \/ \E w \in DownloadOutcomes : Download(w)
    \/ Render
    \/ Finish

\* One script run after another against a service that publishes nothing new
\* meanwhile, at one clock reading.
SearchInit ==
    /\ remote \in {f \in [Dates -> DocNames \cup {NoDoc}] :
                      Cardinality({d \in Dates : f[d] # NoDoc}) <= MaxPublished}
    /\ indicative = FALSE
    /\ now = 0
    /\ cache = [d \in Requested |-> NoEntry]
    /\ pc = "idle"
    /\ user_date = MaxDate
    /\ i = 0
    /\ resource = NoDoc
    /\ result = Unset
    /\ log = << >>
    /\ nCatalog = 0
    /\ nDownload = 0
    /\ view = Blank

SearchNext ==
    \/ \E d \in Requested : Call(d)
    \/ Step

FairSpec == SearchInit /\ [][SearchNext]_vars /\ WF_vars(Step)

---------------------------------------------------------------------------
(* The script alone, on every generated report *)

PowerSeq(S, n) == UNION {[1..m -> S] : m \in 1..n}

ColumnSets ==
    {T \cup P \cup V \cup F :
        T \in {{}, {t_col}}, P \in SUBSET Range(PriceAliases),
        V \in SUBSET Range(VolumeAliases), F \in {{}, ForeignCols}} \ {{}}

TimeTexts == {Some("09:00"), Some("09:30"), Some("soon"), Absent}
PriceTexts == {Some("13.0"), Some("None")}
VolumeTexts == {Some("25"), Some("-40")}

LogicalRows == {LR(t, p, v) : t \in TimeTexts, p \in PriceTexts, v \in VolumeTexts}

RowColumnSets == {{t_col, "IMBALANCE_PRICE", "QNIV"}, {"IMBALANCE_PRICE", "QNIV"}}

Reports ==
    {MkContent(cols, GoodRows) : cols \in ColumnSets}
    \cup {MkContent(cols, lrs) : cols \in RowColumnSets, lrs \in PowerSeq(LogicalRows, MaxRows)}

InitScript ==
    /\ remote = [d \in Dates |-> NoDoc]
    /\ indicative = FALSE
    /\ now = 0
    /\ cache = [d \in Requested |-> NoEntry]
    /\ pc = "returned"
    /\ user_date = MaxDate
    /\ i = 0
    /\ resource = NoDoc
    /\ \E content \in Reports : result = Official(parse_sem_xml(content), MaxDate)
    /\ log = << >>
    /\ nCatalog = 0
    /\ nDownload = 0
    /\ view = Blank

NextScript == Render \/ Finish

SpecScript == InitScript /\ [][NextScript]_vars

---------------------------------------------------------------------------
(* Properties *)

\* The call in progress (or just rendered) ran the network search.
AfterSearch == pc \in {"returned", "shown"} /\ nCatalog > 0

\* Every one of the six candidates was probed and failed.
AllFailed == Len(log) = Lookback /\ \A k \in DOMAIN log : ~log[k].ok

\* C1: a failure of a single candidate date never aborts the resolution and
\* never raises to the caller: after k failures the engine is probing the date
\* k days back; the result is NONE if and only if all six candidates failed.
C1_NoneIffAllFailed ==
    /\ pc # "raised"
    /\ pc \in {"query", "download"} =>
          /\ i < Lookback
          /\ Len(log) = i
          /\ \A k \in DOMAIN log : ~log[k].ok /\ log[k].date = user_date - (k - 1)
    /\ AfterSearch => (result = NONE <=> AllFailed)

\* Five candidates failed one way or another, the caller got the sixth's table.
C1_Witness ==
    /\ pc = "returned"
    /\ Len(log) = Lookback
    /\ nDownload = 2
    /\ log[Lookback].ok
    /\ result # NONE

\* C2: when a probed date yields a report that downloads and parses to a
\* non-empty table, the result is Official Settlement for the most recent such
\* date, with exactly the rows of that date's report; no more recent date
\* yielded one and no older date is probed.
C2_MostRecentOfficial ==
    AfterSearch =>
        \A k \in DOMAIN log :
            log[k].ok =>
                /\ k = Len(log)
                /\ \A j \in 1..(k - 1) : ~log[j].ok /\ log[j].date = user_date - (j - 1)
                /\ log[k].date = user_date - (k - 1)
                /\ result.mode = "Official Settlement"
                /\ result.date = Some(log[k].date)
                /\ ~result.df.none
                /\ result.df.rows = DocContent(Holding(log[k].date)).rows

\* The requested date holds a document that gave no table, the day before did.
C2_Witness ==
    /\ pc = "returned"
    /\ Len(log) = 2
    /\ log[2].ok
    /\ Holding(user_date) # NoDoc
    /\ result.date = Some(user_date - 1)
    /\ Len(result.df.rows) = 2

\* The catalog lists for date d a report with rows and with a price and a
\* volume column the script knows.
HoldsUsable(d) ==
    LET df == parse_sem_xml(DocContent(Holding(d)))
    IN  /\ Holding(d) # NoDoc
        /\ ~Empty(df)
        /\ FirstPresent(PriceAliases, df.cols) # Absent
        /\ FirstPresent(VolumeAliases, df.cols) # Absent

\* C3: a candidate whose table resolves to no known price/volume alias is
\* skipped; the "columns found" error reaches the caller only if no other
\* candidate of the six supplies a usable table.
C3_SchemaMismatchSkipped ==
    (pc = "shown" /\ nCatalog > 0 /\ view.kind = "schema_error") =>
        \A k \in 0..(Lookback - 1) : ~HoldsUsable(user_date - k)

\* C4: when no official report is available (here: all six official candidates
\* failed) but 5-minute indicative files are, the result is INDICATIVE.
C4_IndicativeFallback ==
    (pc = "returned" /\ nCatalog > 0 /\ AllFailed /\ indicative) =>
        result.mode = "Indicative"

\* The cache entry of the requested date answers at the present time.
Fresh(d) == cache[d].has /\ now - cache[d].at < TTL

\* C5: a call within 600 s of the stored resolution returns the stored content
\* and issues no request, whatever the remote holds by then; a call after that
\* searches again; an entry is only ever replaced by a new search's result.
C5_CacheWithinTTL ==
    /\ [](pc = "returned" /\ nCatalog > 0 =>
             cache[user_date] = [has |-> TRUE, at |-> now, val |-> result])
    /\ [][(pc = "idle" /\ pc' # "idle") =>
             IF Fresh(user_date')
             THEN /\ pc' = "returned"
                  /\ result' = cache[user_date'].val
                  /\ nCatalog' = 0 /\ nDownload' = 0
                  /\ cache' = cache
             ELSE pc' = "query" /\ nCatalog' = 0]_vars
    /\ [][\A d \in Requested :
             cache[d].has =>
                 \/ cache'[d] = cache[d]
                 \/ pc' = "returned" /\ nCatalog' > 0 /\ ~Fresh(d)]_vars

\* The cache answered with a table the remote no longer serves for that date.
C5_Witness ==
    /\ pc = "returned"
    /\ nCatalog = 0
    /\ now > cache[user_date].at
    /\ result.mode = "Official Settlement"
    /\ result.df # parse_sem_xml(DocContent(Holding(Get(result.date))))

\* C6: the table handed to the metrics, the chart and the CSV has no two rows
\* with the same START_TIME and is strictly ascending by START_TIME.
C6_UniqueAscending ==
    (pc = "shown" /\ view.kind = "table") =>
        \A a, b \in DOMAIN view.rows :
            (a < b /\ view.rows[a].t # Absent /\ view.rows[b].t # Absent) =>
                Get(view.rows[a].t) < Get(view.rows[b].t)

\* C7: a row whose time cannot be parsed is dropped and the others are shown;
\* an unparseable time field never becomes an error.  Stated for the tables
\* whose rows all carry a START_TIME text and whose columns resolve.
C7_BadTimeDropped ==
    (/\ pc = "shown"
     /\ view.p_col # Absent /\ view.v_col # Absent
     /\ t_col \in result.df.cols
     /\ \A k \in DOMAIN result.df.rows : result.df.rows[k][t_col] # Absent) =>
        /\ view.kind = "table"
        /\ \A k \in DOMAIN view.rows : view.rows[k].t # Absent

\* The first of three names that is among cols, spelled out.
FirstOfThree(a, b, c, cols) ==
    IF a \in cols THEN Some(a)
    ELSE IF b \in cols THEN Some(b)
    ELSE IF c \in cols THEN Some(c)
    ELSE Absent

\* C8: for every set of column names the price field is the first present of
\* the three price aliases and the volume field the first present of the three
\* volume aliases; with none of either, the script shows the schema error with
\* the table's own column names and raises nothing.
C8_ColumnResolver ==
    pc = "shown" =>
        LET cols == result.df.cols
        IN  /\ view.p_col = FirstOfThree("IMBALANCE_SETTLEMENT_PRICE", "IMBALANCE_PRICE",
                                         "NET_IMBALANCE_PRICE", cols)
            /\ view.v_col = FirstOfThree("NET_IMBALANCE_VOLUME", "QNIV", "VOLUME", cols)
            /\ (view.p_col = Absent /\ view.v_col = Absent) =>
                   view.kind = "schema_error" /\ view.cols = cols

\* Two price aliases and two volume aliases are present, the earlier of each wins.
C8_Witness ==
    /\ pc = "shown"
    /\ {"IMBALANCE_PRICE", "NET_IMBALANCE_PRICE", "QNIV", "VOLUME"} \subseteq result.df.cols
    /\ "IMBALANCE_SETTLEMENT_PRICE" \notin result.df.cols
    /\ "NET_IMBALANCE_VOLUME" \notin result.df.cols
    /\ view.p_col = Some("IMBALANCE_PRICE")
    /\ view.v_col = Some("QNIV")

\* The requests of a call are one catalog query per probed date, in the order
\* D, D-1, ..., at most six, and at most one download per probed date.
Bounded ==
    /\ Len(log) <= Lookback
    /\ \A k \in DOMAIN log : log[k].date = user_date - (k - 1)
    /\ nCatalog = Len(log) + (IF pc = "download" THEN 1 ELSE 0)
    /\ nCatalog <= Lookback
    /\ nDownload <= nCatalog
    /\ (pc = "returned" /\ AllFailed) => result = NONE

\* C9: every call terminates: it probes D, D-1, ..., D-5 in that order, each at
\* most once, with at most 6 catalog queries and 6 downloads, never retrying a
\* date, and six failures end it with NONE.
C9_Terminates ==
    /\ []Bounded
    /\ (pc \in {"query", "download"}) ~> (pc = "returned")

\* Six catalog queries, two of them followed by a download, and NONE.
C9_Witness ==
    /\ pc = "returned"
    /\ nCatalog = Lookback
    /\ nDownload = 2
    /\ result = NONE

\* C10: a NONE result is stored like any other: within 600 s a further call
\* returns NONE without a request, even if a report has been published since;
\* after that the search runs again.
C10_NoneIsCached ==
    /\ [](pc = "returned" /\ nCatalog > 0 /\ result = NONE =>
             cache[user_date] = [has |-> TRUE, at |-> now, val |-> NONE])
    /\ [][(pc = "idle" /\ pc' # "idle" /\ cache[user_date'].has
              /\ cache[user_date'].val = NONE) =>
             IF now - cache[user_date'].at < TTL
             THEN pc' = "returned" /\ result' = NONE /\ nCatalog' = 0 /\ nDownload' = 0
             ELSE pc' = "query"]_vars

\* The cache answered NONE while the requested date's report is published.
C10_Witness ==
    /\ pc = "returned"
    /\ nCatalog = 0
    /\ result = NONE
    /\ HoldsUsable(user_date)

====
